---- MODULE Spec2Model ----
(***************************************************************************)
(* Per-category rate limiter of the forum (middleware/rate_limit.go).      *)
(*                                                                         *)
(* Visitor records are heap objects: the registry maps a client IP to an   *)
(* object and a request goroutine keeps the pointer it got from getVisitor *)
(* for the rest of the request, even when the registry drops the record.   *)
(* Time is a bounded integer clock; a Window is a number of clock units.   *)
(***************************************************************************)
EXTENDS Integers, FiniteSets, Sequences, TLC

(* ------------------------------ bounds --------------------------------- *)
MaxTime == 2
MaxReqs == 3
MaxSweeps == 1
MaxCap == 2
MaxBudget == 2
MaxWindow == 1

(* ----------------------------- constants ------------------------------- *)
DefaultMaxVisitors == 10000

Clients == {"a", "b", "c"}
Threads == {"t1", "t2"}
Categories == {"auth", "posts"}
\* Two categories with no policy of their own, and every category a request may carry.
Misc == "misc"
Other == "other"
Names == Categories \cup {Misc, Other, "default"}
Sweeper == "sweeper"
NoIP == ""
Free == "free"

ObjIds == 1 .. (Cardinality(Clients) + Cardinality(Threads))

VARIABLES
    clock,       \* time.Now()
    visitors,    \* map[string]*visitor: client IP -> object id
    heap,        \* the visitor objects: id -> [requests, lastSeen, mu]
    globalMu,    \* writer holding globalMu, or Free
    rateLimits,  \* map[string]RateLimitConfig
    maxVisitors,
    th,          \* request goroutines
    sw,          \* the cleanup goroutine
    nreq,        \* requests started so far (bounds the run)
    nsweep,      \* sweep passes started so far (bounds the run)
    hist,        \* history: per client and category, <<now, count>> of each request counted
    evicted,     \* history: the clients whose record a capacity eviction removed
    adm,         \* configuration calls: how many so far, and nreq at the latest SetRateLimit
    cls,         \* one request's URL path and peer address, and what the handler derives
    boot         \* cleanupOnce, the cleanup goroutines started, the callers of RateLimit

\* What the request path and the sweep never write.
aux == <<adm, cls, boot>>

vars == <<clock, visitors, heap, globalMu, rateLimits, maxVisitors, th, sw, nreq, nsweep,
          hist, evicted, aux>>

(* ------------------------------- maps ---------------------------------- *)
EmptyMap == [x \in {} |-> 0]
MapPut(f, k, val) == [x \in (DOMAIN f) \cup {k} |-> IF x = k THEN val ELSE f[x]]
MapDel(f, ks) == [x \in (DOMAIN f) \ ks |-> f[x]]

SetMin(S) == CHOOSE x \in S : \A y \in S : x <= y
SetMax(S) == CHOOSE x \in S : \A y \in S : y <= x

(* ------------------------------ policies ------------------------------- *)
RateLimitConfig(m, w) == [MaxRequests |-> m, Window |-> w]

\* A faulty lookup: the policy of "default" whatever the category.
getRateLimitConfigDefault(limits, category) == limits["default"]

getRateLimitConfigUnsafe(limits, category) ==
    IF category \in DOMAIN limits THEN limits[category] ELSE limits["default"]

(* ------------------------------ visitors ------------------------------- *)
NewVisitor == [requests |-> EmptyMap, lastSeen |-> EmptyMap, mu |-> Free]

NoError == [category |-> "", max |-> 0, window |-> 0]
NoHeaders == [Limit |-> 0, Remaining |-> 0, Reset |-> 0]

\* The locals of the handler closure and of getVisitor, and what the request wrote
\* to its ResponseWriter; k is the request's place in hist (history).
IdleThread ==
    [pc |-> "idle", ip |-> NoIP, category |-> "default", v |-> 0,
     cfg |-> RateLimitConfig(0, 0), now |-> 0, reqCount |-> 0,
     oldestIP |-> NoIP, oldestTime |-> 0, todo |-> {},
     status |-> 0, nextCalls |-> 0, error |-> NoError, header |-> NoHeaders, k |-> 0]

IdleSweeper == [pc |-> "sleep", now |-> 0, todo |-> {}, toDelete |-> {}, cur |-> NoIP]

\* Objects some pointer still reaches; the rest is garbage.
Reachable(vis, thr) ==
    ({vis[ip] : ip \in DOMAIN vis} \cup {thr[t].v : t \in Threads}) \ {0}

Collect(h, vis, thr) == [o \in (DOMAIN h) \cap Reachable(vis, thr) |-> h[o]]

\* &visitor{...}: a fresh object.
Alloc(h, vis, thr) == SetMin(ObjIds \ ((DOMAIN h) \cup Reachable(vis, thr)))

(* -------------------------------- Init --------------------------------- *)
\* GetVisitorStats between calls, and the configuration calls before the first one.
Reader == "reader"
NoStats == [pc |-> "idle", todo |-> {}, total |-> 0, max |-> 0, categories |-> EmptyMap]
\* A Go map value is a reference to a table: view tells which table the map that
\* GetRateLimits returned refers to (Own: the table in limits; Live: rateLimits).
NoView == "none"
Own == "own"
Live == "live"
\* PrintCurrentVisitors between calls.
NoDump == [pc |-> "idle", todo |-> {}, lines |-> 0]
NoAdmin == [n |-> 0, setAt |-> 0, limits |-> EmptyMap, stats |-> NoStats,
            view |-> NoView, gets |-> 0, puts |-> 0, dump |-> NoDump]
\* The callers of RateLimit (main wraps the API handler; tests wrap their own).
Wrappers == {"w1", "w2", "w3"}

\* cleanupOnce before the first call, and the program once main has wrapped its handler.
NotBooted == [done |-> 0, m |-> Free, tasks |-> 0, calls |-> 0, pc |-> [w \in Wrappers |-> "idle"]]
Booted == [NotBooted EXCEPT !.done = 1, !.tasks = 1, !.calls = 1]

NoInput == [pc |-> "none", path |-> <<>>, addr |-> <<>>, category |-> <<>>, ip |-> <<>>]

Policies == {RateLimitConfig(m, w) : m \in 1 .. MaxBudget, w \in 1 .. MaxWindow}

Init ==
    /\ clock = 0
    /\ visitors = EmptyMap
    /\ heap = EmptyMap
    /\ globalMu = Free
    /\ \E pa \in Policies :
         rateLimits = [c \in {"auth", "posts", "default"} |->
                         IF c = "auth" THEN pa ELSE RateLimitConfig(MaxBudget, MaxWindow)]
    /\ maxVisitors = DefaultMaxVisitors
    /\ th = [t \in Threads |-> IdleThread]
    /\ sw = IdleSweeper
    /\ nreq = 0
    /\ nsweep = 0
    /\ hist = [ip \in Clients |-> [c \in Names |-> <<>>]]
    /\ evicted = {}
    /\ adm = NoAdmin
    /\ cls = NoInput
    /\ boot = Booted

(* ------------------------------- clock --------------------------------- *)
Tick ==
    /\ clock < MaxTime
    /\ clock' = clock + 1
    /\ UNCHANGED <<visitors, heap, globalMu, rateLimits, maxVisitors, th, sw, nreq, nsweep, hist, evicted, aux>>

(* ----------------------------- getVisitor ------------------------------ *)
\* A faulty lookup: every client is handed the first registered record.
LookupShared(vis, ip) ==
    IF DOMAIN vis # {} THEN vis[CHOOSE x \in DOMAIN vis : TRUE] ELSE 0

\* visitors[ip] of line 113: the record registered under ip, 0 when there is none.
Lookup(vis, ip) == IF ip \in DOMAIN vis THEN vis[ip] ELSE 0

\* Line 118.
AtCapacity(n, max) == n >= max

GetVisitor(t, ip, category) ==
    /\ th[t].pc = "idle"
    /\ globalMu = Free
    /\ nreq' = nreq + 1
    /\ LET base == [IdleThread EXCEPT !.ip = ip, !.category = category] IN
       IF Lookup(visitors, ip) # 0
       THEN /\ th' = [th EXCEPT ![t] = [base EXCEPT !.pc = "getConfig",
                                                    !.v = Lookup(visitors, ip)]]
            /\ heap' = Collect(heap, visitors, th')
            /\ UNCHANGED <<visitors, globalMu>>
       ELSE IF AtCapacity(Cardinality(DOMAIN visitors), maxVisitors)
       THEN /\ th' = [th EXCEPT ![t] = [base EXCEPT !.pc = "evict", !.oldestIP = NoIP,
                                                    !.oldestTime = clock,
                                                    !.todo = DOMAIN visitors]]
            /\ globalMu' = t
            /\ heap' = Collect(heap, visitors, th')
            /\ UNCHANGED visitors
       ELSE LET o == Alloc(heap, visitors, [th EXCEPT ![t] = base]) IN
            /\ th' = [th EXCEPT ![t] = [base EXCEPT !.pc = "getConfig", !.v = o]]
            /\ visitors' = MapPut(visitors, ip, o)
            /\ heap' = Collect(MapPut(heap, o, NewVisitor), visitors', th')
            /\ UNCHANGED globalMu
    /\ UNCHANGED <<clock, rateLimits, maxVisitors, sw, nsweep, hist, evicted, aux>>

\* A faulty scan: the visitor's lock is kept.
EvictScanHold(t, vip) ==
    /\ th[t].pc = "evict"
    /\ vip \in th[t].todo
    /\ heap[visitors[vip]].mu = Free
    /\ LET seen == heap[visitors[vip]].lastSeen
           times == {seen[c] : c \in DOMAIN seen}
           older == {x \in times : x < th[t].oldestTime}
       IN th' = [th EXCEPT ![t].todo = @ \ {vip},
                           ![t].oldestTime = IF older = {} THEN @ ELSE SetMin(older),
                           ![t].oldestIP = IF older = {} THEN @ ELSE vip]
    /\ heap' = [heap EXCEPT ![visitors[vip]].mu = t]
    /\ UNCHANGED <<clock, visitors, globalMu, rateLimits, maxVisitors, sw, nreq, nsweep, hist, evicted, aux>>

\* One iteration of the scan for the oldest visitor, under that visitor's RLock.
EvictScan(t, vip) ==
    /\ th[t].pc = "evict"
    /\ vip \in th[t].todo
    /\ heap[visitors[vip]].mu = Free
    /\ LET seen == heap[visitors[vip]].lastSeen
           times == {seen[c] : c \in DOMAIN seen}
           older == {x \in times : x < th[t].oldestTime}
       IN th' = [th EXCEPT ![t].todo = @ \ {vip},
                           ![t].oldestTime = IF older = {} THEN @ ELSE SetMin(older),
                           ![t].oldestIP = IF older = {} THEN @ ELSE vip]
    /\ UNCHANGED <<clock, visitors, heap, globalMu, rateLimits, maxVisitors, sw, nreq, nsweep, hist, evicted, aux>>

EvictDone(t) ==
    /\ th[t].pc = "evict"
    /\ th[t].todo = {}
    /\ LET kept == IF th[t].oldestIP # NoIP THEN MapDel(visitors, {th[t].oldestIP}) ELSE visitors
           o == Alloc(heap, visitors, th)
       IN /\ visitors' = MapPut(kept, th[t].ip, o)
          /\ th' = [th EXCEPT ![t].pc = "getConfig", ![t].v = o,
                              ![t].oldestIP = NoIP, ![t].oldestTime = 0]
          /\ heap' = Collect(MapPut(heap, o, NewVisitor), visitors', th')
    /\ evicted' = IF th[t].oldestIP # NoIP THEN evicted \cup {th[t].oldestIP} ELSE evicted
    /\ globalMu' = Free
    /\ UNCHANGED <<clock, rateLimits, maxVisitors, sw, nreq, nsweep, hist, aux>>

(* ------------------------------ RateLimit ------------------------------ *)
GetConfig(t) ==
    /\ th[t].pc = "getConfig"
    /\ globalMu \in {Free, Reader}
    /\ th' = [th EXCEPT ![t].pc = "readNow",
                        ![t].cfg = getRateLimitConfigUnsafe(rateLimits, th[t].category)]
    /\ UNCHANGED <<clock, visitors, heap, globalMu, rateLimits, maxVisitors, sw, nreq, nsweep, hist, evicted, aux>>

ReadNow(t) ==
    /\ th[t].pc = "readNow"
    /\ th' = [th EXCEPT ![t].pc = "lock", ![t].now = clock]
    /\ UNCHANGED <<clock, visitors, heap, globalMu, rateLimits, maxVisitors, sw, nreq, nsweep, hist, evicted, aux>>

\* A faulty handler: the update is entered without v.mu.
LockVisitorSkip(t) ==
    /\ th[t].pc = "lock"
    /\ th' = [th EXCEPT ![t].pc = "update"]
    /\ UNCHANGED <<clock, visitors, heap, globalMu, rateLimits, maxVisitors, sw, nreq, nsweep, hist, evicted, aux>>

\* Line 202.
LockVisitor(t) ==
    /\ th[t].pc = "lock"
    /\ heap[th[t].v].mu = Free
    /\ heap' = [heap EXCEPT ![th[t].v].mu = t]
    /\ th' = [th EXCEPT ![t].pc = "update"]
    /\ UNCHANGED <<clock, visitors, globalMu, rateLimits, maxVisitors, sw, nreq, nsweep, hist, evicted, aux>>

\* A faulty window test: one clock unit late.
WindowExpiredLate(now, lastSeen, window) == now - lastSeen > window + 1

\* A faulty window test: the window ends one clock unit early.
WindowExpiredEarly(now, lastSeen, window) == now - lastSeen >= window

\* The window test of line 205.
WindowExpired(now, lastSeen, window) == now - lastSeen > window

\* A faulty update: the count is never reset.
CheckAndIncrementNoReset(rec, category, now, cfg) ==
    LET before == IF category \in DOMAIN rec.requests THEN rec.requests[category] ELSE 0
    IN [rec EXCEPT !.requests = MapPut(rec.requests, category, before + 1),
                   !.lastSeen = MapPut(rec.lastSeen, category, now)]

\* A faulty update: a reset clears every category of the visitor.
CheckAndIncrementClearAll(rec, category, now, cfg) ==
    LET reset == \/ category \notin DOMAIN rec.lastSeen
                 \/ now - rec.lastSeen[category] > cfg.Window
        before == IF reset THEN 0
                  ELSE IF category \in DOMAIN rec.requests THEN rec.requests[category] ELSE 0
    IN [rec EXCEPT !.requests = MapPut(IF reset THEN EmptyMap ELSE rec.requests,
                                       category, before + 1),
                   !.lastSeen = MapPut(IF reset THEN EmptyMap ELSE rec.lastSeen,
                                       category, now)]

\* A faulty update: a request over the budget is not counted and leaves lastSeen.
CheckAndIncrementSkipRejected(rec, category, now, cfg) ==
    LET reset == \/ category \notin DOMAIN rec.lastSeen
                 \/ now - rec.lastSeen[category] > cfg.Window
        before == IF reset THEN 0
                  ELSE IF category \in DOMAIN rec.requests THEN rec.requests[category] ELSE 0
    IN IF before > cfg.MaxRequests THEN rec
       ELSE [rec EXCEPT !.requests = MapPut(rec.requests, category, before + 1),
                        !.lastSeen = MapPut(rec.lastSeen, category, now)]

\* A faulty update: one counter for all the categories of the visitor.
CheckAndIncrementShared(rec, category, now, cfg) ==
    LET reset == \/ DOMAIN rec.lastSeen = {}
                 \/ \A c \in DOMAIN rec.lastSeen : now - rec.lastSeen[c] > cfg.Window
        before == IF reset THEN 0 ELSE SetMax({rec.requests[c] : c \in DOMAIN rec.requests})
    IN [rec EXCEPT !.requests = MapPut(rec.requests, category, before + 1),
                   !.lastSeen = MapPut(rec.lastSeen, category, now)]

\* Lines 204-212 on one visitor object.
CheckAndIncrement(rec, category, now, cfg) ==
    LET reset == \/ category \notin DOMAIN rec.lastSeen
                 \/ WindowExpired(now, rec.lastSeen[category], cfg.Window)
        before == IF reset THEN 0
                  ELSE IF category \in DOMAIN rec.requests THEN rec.requests[category] ELSE 0
    IN [rec EXCEPT !.requests = MapPut(rec.requests, category, before + 1),
                   !.lastSeen = MapPut(rec.lastSeen, category, now)]

\* A faulty critical section: v.mu is never released.
UpdateNoUnlock(t) ==
    /\ th[t].pc = "update"
    /\ LET o == th[t].v
           rec == CheckAndIncrement(heap[o], th[t].category, th[t].now, th[t].cfg)
           h == hist[th[t].ip][th[t].category]
       IN /\ th' = [th EXCEPT ![t].pc = "respond", ![t].v = 0,
                              ![t].reqCount = rec.requests[th[t].category],
                              ![t].k = Len(h) + 1]
          /\ heap' = Collect([heap EXCEPT ![o] = rec], visitors, th')
          /\ hist' = [hist EXCEPT ![th[t].ip][th[t].category] =
                         Append(h, <<th[t].now, rec.requests[th[t].category]>>)]
    /\ UNCHANGED <<clock, visitors, globalMu, rateLimits, maxVisitors, sw, nreq, nsweep, evicted, aux>>

Update(t) ==
    /\ th[t].pc = "update"
    /\ LET o == th[t].v
           rec == CheckAndIncrement(heap[o], th[t].category, th[t].now, th[t].cfg)
           h == hist[th[t].ip][th[t].category]
       IN /\ th' = [th EXCEPT ![t].pc = "respond", ![t].v = 0,
                              ![t].reqCount = rec.requests[th[t].category],
                              ![t].k = Len(h) + 1]
          /\ heap' = Collect([heap EXCEPT ![o] = [rec EXCEPT !.mu = Free]], visitors, th')
          /\ hist' = [hist EXCEPT ![th[t].ip][th[t].category] =
                         Append(h, <<th[t].now, rec.requests[th[t].category]>>)]
    /\ UNCHANGED <<clock, visitors, globalMu, rateLimits, maxVisitors, sw, nreq, nsweep, evicted, aux>>

\* Faulty headers: Remaining is not clamped at 0.
setRateLimitHeadersUnclamped(cfg, count, lastSeen) ==
    [Limit |-> cfg.MaxRequests,
     Remaining |-> cfg.MaxRequests - count,
     Reset |-> lastSeen + cfg.Window]

\* setRateLimitHeaders, lines 233-242.
setRateLimitHeaders(cfg, count, lastSeen) ==
    LET remaining == cfg.MaxRequests - count IN
    [Limit |-> cfg.MaxRequests,
     Remaining |-> IF remaining < 0 THEN 0 ELSE remaining,
     Reset |-> lastSeen + cfg.Window]

\* A faulty limit test: the N-th request is already rejected.
LimitReached(reqCount, cfg) == reqCount >= cfg.MaxRequests

\* Line 220.
LimitExceeded(reqCount, cfg) == reqCount > cfg.MaxRequests

\* utils.TooManyRequests: utils.Error with the 429 status.
TooManyRequests == 429

\* The text of lines 222-223, as the values it is formatted from.
RateLimitError(category, cfg) ==
    [category |-> category, max |-> cfg.MaxRequests, window |-> cfg.Window]

\* Lines 216-228: the headers, then either the rejection or the wrapped handler.
Respond(t) ==
    /\ th[t].pc = "respond"
    /\ LET hd == setRateLimitHeaders(th[t].cfg, th[t].reqCount, th[t].now) IN
       IF LimitExceeded(th[t].reqCount, th[t].cfg)
       THEN th' = [th EXCEPT ![t].pc = "done", ![t].header = hd,
                             ![t].status = TooManyRequests,
                             ![t].error = RateLimitError(th[t].category, th[t].cfg)]
       ELSE th' = [th EXCEPT ![t].pc = "done", ![t].header = hd,
                             ![t].nextCalls = @ + 1]
    /\ UNCHANGED <<clock, visitors, heap, globalMu, rateLimits, maxVisitors, sw, nreq, nsweep, hist, evicted, aux>>

Return(t) ==
    /\ th[t].pc = "done"
    /\ th' = [th EXCEPT ![t] = IdleThread]
    /\ UNCHANGED <<clock, visitors, heap, globalMu, rateLimits, maxVisitors, sw, nreq, nsweep, hist, evicted, aux>>

(* --------------------------- cleanupVisitors --------------------------- *)
SweepBegin ==
    /\ sw.pc = "sleep"
    /\ nsweep < MaxSweeps
    /\ globalMu = Free
    /\ globalMu' = Sweeper
    /\ sw' = [IdleSweeper EXCEPT !.pc = "scan", !.now = clock, !.todo = DOMAIN visitors]
    /\ nsweep' = nsweep + 1
    /\ UNCHANGED <<clock, visitors, heap, rateLimits, maxVisitors, th, nreq, hist, evicted, aux>>

\* A faulty staleness test: an entry is dropped as soon as its window is full.
StaleEarly(now, lastSeen, category) ==
    now - lastSeen >= getRateLimitConfigUnsafe(rateLimits, category).Window

\* The staleness test of lines 67 and 82.
Stale(now, lastSeen, category) ==
    now - lastSeen > getRateLimitConfigUnsafe(rateLimits, category).Window

\* Lines 61-77: the allStale test of one visitor, under its RLock.
SweepCheck(ip) ==
    /\ sw.pc = "scan"
    /\ ip \in sw.todo
    /\ heap[visitors[ip]].mu = Free
    /\ LET seen == heap[visitors[ip]].lastSeen
           allStale == \A c \in DOMAIN seen : Stale(sw.now, seen[c], c)
       IN sw' = IF allStale
                THEN [sw EXCEPT !.todo = @ \ {ip}, !.toDelete = @ \cup {ip}]
                ELSE [sw EXCEPT !.pc = "clean", !.cur = ip]
    /\ UNCHANGED <<clock, visitors, heap, globalMu, rateLimits, maxVisitors, th, nreq, nsweep, hist, evicted, aux>>

\* A faulty clean-up: the stale counts are dropped, their timestamps are kept.
SweepCleanCounts ==
    /\ sw.pc = "clean"
    /\ heap[visitors[sw.cur]].mu = Free
    /\ LET o == visitors[sw.cur]
           stale == {c \in DOMAIN heap[o].lastSeen : Stale(sw.now, heap[o].lastSeen[c], c)}
       IN heap' = [heap EXCEPT ![o].requests = MapDel(@, stale)]
    /\ sw' = [sw EXCEPT !.pc = "scan", !.todo = @ \ {sw.cur}, !.cur = NoIP]
    /\ UNCHANGED <<clock, visitors, globalMu, rateLimits, maxVisitors, th, nreq, nsweep, hist, evicted, aux>>

\* Lines 79-87: drop the stale categories of a visitor, under its Lock.
SweepClean ==
    /\ sw.pc = "clean"
    /\ heap[visitors[sw.cur]].mu = Free
    /\ LET o == visitors[sw.cur]
           stale == {c \in DOMAIN heap[o].lastSeen : Stale(sw.now, heap[o].lastSeen[c], c)}
       IN heap' = [heap EXCEPT ![o].requests = MapDel(@, stale),
                               ![o].lastSeen = MapDel(@, stale)]
    /\ sw' = [sw EXCEPT !.pc = "scan", !.todo = @ \ {sw.cur}, !.cur = NoIP]
    /\ UNCHANGED <<clock, visitors, globalMu, rateLimits, maxVisitors, th, nreq, nsweep, hist, evicted, aux>>

\* Lines 92-95.
SweepEnd ==
    /\ sw.pc = "scan"
    /\ sw.todo = {}
    /\ visitors' = MapDel(visitors, sw.toDelete)
    /\ heap' = Collect(heap, visitors', th)
    /\ globalMu' = Free
    /\ sw' = IdleSweeper
    /\ UNCHANGED <<clock, rateLimits, maxVisitors, th, nreq, nsweep, hist, evicted, aux>>

(* ---------------------------- configuration ---------------------------- *)
SetMaxVisitors(max) ==
    /\ globalMu = Free
    /\ maxVisitors # max
    /\ maxVisitors' = max
    /\ UNCHANGED <<clock, visitors, heap, globalMu, rateLimits, th, sw, nreq, nsweep, hist, evicted, aux>>

\* A faulty SetRateLimit: it also drops every visitor record.
SetRateLimitAndReset(category, maxRequests, window) ==
    /\ globalMu = Free
    /\ rateLimits' = MapPut(rateLimits, category, RateLimitConfig(maxRequests, window))
    /\ adm' = [adm EXCEPT !.n = @ + 1, !.setAt = nreq]
    /\ visitors' = EmptyMap
    /\ heap' = Collect(heap, visitors', th)
    /\ UNCHANGED <<clock, globalMu, maxVisitors, th, sw, nreq, nsweep, hist, evicted, cls, boot>>

\* Lines 245-252; adm counts the call and notes how many requests had started.
SetRateLimit(category, maxRequests, window) ==
    /\ globalMu = Free
    /\ rateLimits' = MapPut(rateLimits, category, RateLimitConfig(maxRequests, window))
    /\ adm' = [adm EXCEPT !.n = @ + 1, !.setAt = nreq]
    /\ UNCHANGED <<clock, visitors, heap, globalMu, maxVisitors, th, sw, nreq, nsweep, hist, evicted, cls, boot>>

\* A faulty GetRateLimits: it returns rateLimits itself.
GetRateLimitsLive ==
    /\ globalMu \in {Free, Reader}
    /\ adm' = [adm EXCEPT !.n = @ + 1, !.gets = @ + 1, !.limits = EmptyMap, !.view = Live]
    /\ UNCHANGED <<clock, visitors, heap, globalMu, rateLimits, maxVisitors, th, sw, nreq, nsweep, hist, evicted, cls, boot>>

\* Lines 255-264: under globalMu.RLock, a new table filled with the entries of
\* rateLimits (the entries are structs of two integers, copied by value).
GetRateLimits ==
    /\ globalMu \in {Free, Reader}
    /\ adm' = [adm EXCEPT !.n = @ + 1, !.gets = @ + 1,
                          !.limits = [k \in DOMAIN rateLimits |-> rateLimits[k]],
                          !.view = Own]
    /\ UNCHANGED <<clock, visitors, heap, globalMu, rateLimits, maxVisitors, th, sw, nreq, nsweep, hist, evicted, cls, boot>>

\* The table behind the map the caller of GetRateLimits holds.
CallerMap == IF adm.view = Live THEN rateLimits ELSE adm.limits

\* The caller assigns an entry of the map it was returned, or deletes one.
CallerPut(category, maxRequests, window) ==
    /\ adm.view # NoView
    /\ IF adm.view = Live
       THEN /\ rateLimits' = MapPut(rateLimits, category, RateLimitConfig(maxRequests, window))
            /\ adm' = [adm EXCEPT !.puts = @ + 1]
       ELSE /\ adm' = [adm EXCEPT !.puts = @ + 1,
                                  !.limits = MapPut(@, category, RateLimitConfig(maxRequests, window))]
            /\ UNCHANGED rateLimits
    /\ UNCHANGED <<clock, visitors, heap, globalMu, maxVisitors, th, sw, nreq, nsweep, hist, evicted, cls, boot>>

CallerDelete(category) ==
    /\ adm.view # NoView
    /\ category \in DOMAIN CallerMap
    /\ IF adm.view = Live
       THEN /\ rateLimits' = MapDel(rateLimits, {category})
            /\ adm' = [adm EXCEPT !.puts = @ + 1]
       ELSE /\ adm' = [adm EXCEPT !.puts = @ + 1, !.limits = MapDel(@, {category})]
            /\ UNCHANGED rateLimits
    /\ UNCHANGED <<clock, visitors, heap, globalMu, maxVisitors, th, sw, nreq, nsweep, hist, evicted, cls, boot>>

\* Lines 268-276: globalMu.RLock, held until the call returns.
StatsBegin ==
    /\ adm.stats.pc = "idle"
    /\ globalMu = Free
    /\ globalMu' = Reader
    /\ adm' = [adm EXCEPT !.n = @ + 1,
                          !.stats = [pc |-> "scan", todo |-> DOMAIN visitors,
                                     total |-> Cardinality(DOMAIN visitors),
                                     max |-> maxVisitors, categories |-> EmptyMap]]
    /\ UNCHANGED <<clock, visitors, heap, rateLimits, maxVisitors, th, sw, nreq, nsweep, hist, evicted, cls, boot>>

\* Lines 277-283: one visitor, under its RLock.
StatsVisit(ip) ==
    /\ adm.stats.pc = "scan"
    /\ ip \in adm.stats.todo
    /\ heap[visitors[ip]].mu = Free
    /\ LET cats == DOMAIN heap[visitors[ip]].requests
           old == adm.stats.categories
       IN adm' = [adm EXCEPT !.stats.todo = @ \ {ip},
                             !.stats.categories =
                                 [c \in (DOMAIN old) \cup cats |->
                                     (IF c \in DOMAIN old THEN old[c] ELSE 0)
                                     + (IF c \in cats THEN 1 ELSE 0)]]
    /\ UNCHANGED <<clock, visitors, heap, globalMu, rateLimits, maxVisitors, th, sw, nreq, nsweep, hist, evicted, cls, boot>>

\* Lines 284-286 and the deferred RUnlock.
StatsEnd ==
    /\ adm.stats.pc = "scan"
    /\ adm.stats.todo = {}
    /\ globalMu' = Free
    /\ adm' = [adm EXCEPT !.stats.pc = "idle"]
    /\ UNCHANGED <<clock, visitors, heap, rateLimits, maxVisitors, th, sw, nreq, nsweep, hist, evicted, cls, boot>>

\* PrintCurrentVisitors, lines 339-343: globalMu.RLock, held until the call returns.
DumpBegin ==
    /\ adm.dump.pc = "idle"
    /\ globalMu = Free
    /\ globalMu' = Reader
    /\ adm' = [adm EXCEPT !.n = @ + 1,
                          !.dump = [pc |-> "scan", todo |-> DOMAIN visitors, lines |-> 0]]
    /\ UNCHANGED <<clock, visitors, heap, rateLimits, maxVisitors, th, sw, nreq, nsweep, hist, evicted, cls, boot>>

\* Lines 344-353: one visitor, under its RLock; one line per category.
DumpVisit(ip) ==
    /\ adm.dump.pc = "scan"
    /\ ip \in adm.dump.todo
    /\ heap[visitors[ip]].mu = Free
    /\ adm' = [adm EXCEPT !.dump.todo = @ \ {ip},
                          !.dump.lines = @ + Cardinality(DOMAIN heap[visitors[ip]].requests)]
    /\ UNCHANGED <<clock, visitors, heap, globalMu, rateLimits, maxVisitors, th, sw, nreq, nsweep, hist, evicted, cls, boot>>

\* Lines 354-355 and the deferred RUnlock.
DumpEnd ==
    /\ adm.dump.pc = "scan"
    /\ adm.dump.todo = {}
    /\ globalMu' = Free
    /\ adm' = [adm EXCEPT !.dump.pc = "idle"]
    /\ UNCHANGED <<clock, visitors, heap, rateLimits, maxVisitors, th, sw, nreq, nsweep, hist, evicted, cls, boot>>

\* Lines 297-301.
ResetVisitor(ip) ==
    /\ globalMu = Free
    /\ visitors' = MapDel(visitors, {ip})
    /\ heap' = Collect(heap, visitors', th)
    /\ adm' = [adm EXCEPT !.n = @ + 1]
    /\ UNCHANGED <<clock, globalMu, rateLimits, maxVisitors, th, sw, nreq, nsweep, hist, evicted, cls, boot>>

\* Lines 304-308.
ResetAllVisitors ==
    /\ globalMu = Free
    /\ visitors' = EmptyMap
    /\ heap' = Collect(heap, visitors', th)
    /\ adm' = [adm EXCEPT !.n = @ + 1]
    /\ UNCHANGED <<clock, globalMu, rateLimits, maxVisitors, th, sw, nreq, nsweep, hist, evicted, cls, boot>>

(* ----------------------------- startCleanup --------------------------- *)
\* RateLimit is called to wrap a handler: line 178 calls startCleanup.
Wrap(w) ==
    /\ boot.pc[w] = "idle"
    /\ boot' = [boot EXCEPT !.pc[w] = "load", !.calls = @ + 1]
    /\ UNCHANGED <<clock, visitors, heap, globalMu, rateLimits, maxVisitors, th, sw, nreq, nsweep, hist, evicted, adm, cls>>

\* A faulty test of the flag: the function is taken as not yet run.
OnceAlways(done) == TRUE

\* sync.Once: done.Load() == 0.
OnceFirst(done) == done = 0

\* Once.Do, fast path: return at once when the function has run.
OnceLoad(w) ==
    /\ boot.pc[w] = "load"
    /\ boot' = [boot EXCEPT !.pc[w] = IF OnceFirst(boot.done) THEN "slow" ELSE "idle"]
    /\ UNCHANGED <<clock, visitors, heap, globalMu, rateLimits, maxVisitors, th, sw, nreq, nsweep, hist, evicted, adm, cls>>

\* Once.doSlow: m.Lock().
OnceLock(w) ==
    /\ boot.pc[w] = "slow"
    /\ boot.m = Free
    /\ boot' = [boot EXCEPT !.pc[w] = "locked", !.m = w]
    /\ UNCHANGED <<clock, visitors, heap, globalMu, rateLimits, maxVisitors, th, sw, nreq, nsweep, hist, evicted, adm, cls>>

\* Once.doSlow: the second test of the flag, then line 46, go cleanupVisitors().
OnceRun(w) ==
    /\ boot.pc[w] = "locked"
    /\ boot' = [boot EXCEPT !.pc[w] = IF OnceFirst(boot.done) THEN "ran" ELSE "unlock",
                            !.tasks = IF OnceFirst(boot.done) THEN @ + 1 ELSE @]
    /\ UNCHANGED <<clock, visitors, heap, globalMu, rateLimits, maxVisitors, th, sw, nreq, nsweep, hist, evicted, adm, cls>>

\* Once.doSlow: the deferred done.Store(1) and m.Unlock(); RateLimit returns.
OnceUnlock(w) ==
    /\ boot.pc[w] \in {"ran", "unlock"}
    /\ boot' = [boot EXCEPT !.pc[w] = "idle", !.m = Free,
                            !.done = IF boot.pc[w] = "ran" THEN 1 ELSE @]
    /\ UNCHANGED <<clock, visitors, heap, globalMu, rateLimits, maxVisitors, th, sw, nreq, nsweep, hist, evicted, adm, cls>>

(* --------------------------- classification ---------------------------- *)
\* Strings are sequences of one-character strings.
Slash == "/"
ApiPrefix == <<"a", "p", "i", "/">>
DefaultName == <<"d", "e", "f", "a", "u", "l", "t">>

\* strings.HasPrefix, strings.TrimPrefix, strings.Trim with a one-character cutset.
HasPrefix(str, prefix) ==
    Len(str) >= Len(prefix) /\ SubSeq(str, 1, Len(prefix)) = prefix

TrimPrefix(str, prefix) ==
    IF HasPrefix(str, prefix) THEN SubSeq(str, Len(prefix) + 1, Len(str)) ELSE str

RECURSIVE TrimLeft(_, _)
TrimLeft(str, ch) ==
    IF str # <<>> /\ Head(str) = ch THEN TrimLeft(Tail(str), ch) ELSE str

RECURSIVE TrimRight(_, _)
TrimRight(str, ch) ==
    IF str # <<>> /\ str[Len(str)] = ch
    THEN TrimRight(SubSeq(str, 1, Len(str) - 1), ch) ELSE str

Trim(str, ch) == TrimRight(TrimLeft(str, ch), ch)

\* strings.IndexByte, 1-based; 0 when ch does not occur.
Index(str, ch) ==
    LET at == {i \in 1 .. Len(str) : str[i] = ch}
    IN IF at = {} THEN 0 ELSE SetMin(at)

LastIndex(str, ch) ==
    LET at == {i \in 1 .. Len(str) : str[i] = ch}
    IN IF at = {} THEN 0 ELSE SetMax(at)

\* strings.SplitN(str, "/", 2)[0].
FirstOfSplit(str, ch) ==
    IF Index(str, ch) = 0 THEN str ELSE SubSeq(str, 1, Index(str, ch) - 1)

\* A faulty classifier: the last segment instead of the first.
determineCategoryLast(path) ==
    LET trimmed == Trim(path, Slash)
    IN IF trimmed = <<>> THEN DefaultName
       ELSE SubSeq(trimmed, LastIndex(trimmed, Slash) + 1, Len(trimmed))

\* Lines 164-174.
determineCategory(path) ==
    LET trimmed == Trim(path, Slash)
    IN IF trimmed = <<>> THEN DefaultName ELSE FirstOfSplit(trimmed, Slash)

\* Lines 185-194 of the handler.
Classify ==
    /\ cls.pc = "request"
    /\ LET path == TrimPrefix(TrimPrefix(cls.path, <<Slash>>), ApiPrefix)
           category == determineCategory(path)
       IN cls' = [cls EXCEPT !.pc = "classified",
                             !.category = IF category = <<>> THEN DefaultName ELSE category]
    /\ UNCHANGED <<clock, visitors, heap, globalMu, rateLimits, maxVisitors, th, sw, nreq, nsweep, hist, evicted, adm, boot>>

(* ------------------------------ client key ---------------------------- *)
Colon == ":"
Open == "["
Close == "]"

NoSplit == [ok |-> FALSE, host |-> <<>>, port |-> <<>>]

\* net.SplitHostPort: the port starts after the last colon; a host in brackets must
\* end just before that colon, a bare host must hold no colon, and no other bracket
\* may occur.
SplitHostPort(hostport) ==
    LET n == Len(hostport)
        i == LastIndex(hostport, Colon)
        end == Index(hostport, Close)
        bracketed == hostport[1] = Open
        host == IF bracketed THEN SubSeq(hostport, 2, end - 1) ELSE SubSeq(hostport, 1, i - 1)
        afterJ == IF bracketed THEN SubSeq(hostport, 2, n) ELSE hostport
        afterK == IF bracketed THEN SubSeq(hostport, end + 1, n) ELSE hostport
    IN IF i = 0 THEN NoSplit
       ELSE IF bracketed /\ (end = 0 \/ end = n \/ end + 1 # i) THEN NoSplit
       ELSE IF ~bracketed /\ Index(host, Colon) # 0 THEN NoSplit
       ELSE IF Index(afterJ, Open) # 0 \/ Index(afterK, Close) # 0 THEN NoSplit
       ELSE [ok |-> TRUE, host |-> host, port |-> SubSeq(hostport, i + 1, n)]

\* A faulty extraction: the peer address as it is.
extractIPRaw(remoteAddr) == remoteAddr

\* Lines 100-105.
extractIP(remoteAddr) ==
    IF SplitHostPort(remoteAddr).ok THEN SplitHostPort(remoteAddr).host ELSE remoteAddr

\* Line 182.
ExtractKey ==
    /\ cls.pc = "peer"
    /\ cls' = [cls EXCEPT !.pc = "keyed", !.ip = extractIP(cls.addr)]
    /\ UNCHANGED <<clock, visitors, heap, globalMu, rateLimits, maxVisitors, th, sw, nreq, nsweep, hist, evicted, adm, boot>>

(* -------------------------------- Next --------------------------------- *)
\* Idle goroutines are interchangeable: the first idle one serves the request.
Starts(T, t) == \A u \in T : th[u].pc = "idle" => ~(<<u, t>> \in {<<"t1", "t2">>})

\* A request enters getVisitor; the scan and the removal of a capacity eviction; the
\* rest of the handler.
StartStep(T, C, K, cap) ==
    \E t \in T, ip \in C, c \in K : Starts(T, t) /\ nreq < cap /\ GetVisitor(t, ip, c)

EvictStep(T, C) ==
    \/ \E t \in T, ip \in C : EvictScan(t, ip)
    \/ \E t \in T : EvictDone(t)

HandleStep(T) ==
    \/ \E t \in T : GetConfig(t)
    \/ \E t \in T : ReadNow(t)
    \/ \E t \in T : LockVisitor(t)
    \/ \E t \in T : Update(t)
    \/ \E t \in T : Respond(t)
    \/ \E t \in T : Return(t)

RequestStep(T, C, K, cap) ==
    \/ StartStep(T, C, K, cap)
    \/ EvictStep(T, C)
    \/ HandleStep(T)

SweepStep ==
    \/ SweepBegin
    \/ \E ip \in Clients : SweepCheck(ip)
    \/ SweepClean
    \/ SweepEnd

Next ==
    \/ Tick
    \/ RequestStep(Threads, {"a", "b"}, {"auth"}, MaxReqs)
    \/ SweepStep
    \/ \E k \in 1 .. MaxCap : SetMaxVisitors(k)

Spec == Init /\ [][Next]_vars

NextSeq ==
    \/ Tick
    \/ RequestStep({"t1"}, Clients, Categories, MaxReqs)
    \/ SweepStep
    \/ \E k \in 1 .. MaxCap : SetMaxVisitors(k)

SpecSeq == Init /\ [][NextSeq]_vars

\* Eviction alone, with one more request: the case of the eviction victim needs four.
MaxReqsEvict == 4

NextEvict ==
    \/ Tick
    \/ RequestStep({"t1"}, Clients, Categories, MaxReqsEvict)
    \/ \E k \in 1 .. MaxCap : SetMaxVisitors(k)

SpecEvict == Init /\ [][NextEvict]_vars

\* Requests of one client, to a category with no policy of its own at first, under a
\* changing policy table: SetRateLimit is called with any small integers, valid or
\* not, for auth, for the requests' category and for "default". The registry never
\* fills up here, so the capacity eviction has no step.
MaxSets == 2
SetNames == {"auth", Misc, "default"}

NextPolicy ==
    \/ Tick
    \/ StartStep({"t1"}, {"a"}, {Misc}, MaxReqs)
    \/ HandleStep({"t1"})
    \/ SweepStep
    \/ \E c \in SetNames, m \in 0 .. MaxBudget, w \in 0 .. MaxWindow :
          adm.n < MaxSets /\ SetRateLimit(c, m, w)

SpecPolicy == Init /\ [][NextPolicy]_vars

\* The handler's classification of every URL path up to MaxPath characters.
MaxPath == 8
PathChars == {Slash, "a", "p", "i"}

RECURSIVE Strings(_, _)
Strings(chars, n) ==
    IF n = 0 THEN {<<>>}
    ELSE LET shorter == Strings(chars, n - 1)
         IN shorter \cup {Append(str, ch) : str \in shorter, ch \in chars}

\* r.URL.Path of a request the server accepted is empty or begins with a slash.
Paths == {<<>>} \cup {<<Slash>> \o str : str \in Strings(PathChars, MaxPath - 1)}

InitClassify ==
    /\ clock = 0 /\ visitors = EmptyMap /\ heap = EmptyMap /\ globalMu = Free
    /\ rateLimits = [c \in {"auth", "posts", "default"} |-> RateLimitConfig(MaxBudget, MaxWindow)]
    /\ maxVisitors = DefaultMaxVisitors
    /\ th = [t \in Threads |-> IdleThread] /\ sw = IdleSweeper
    /\ nreq = 0 /\ nsweep = 0
    /\ hist = [ip \in Clients |-> [c \in Names |-> <<>>]]
    /\ evicted = {} /\ adm = NoAdmin /\ boot = Booted
    /\ \E path \in Paths : cls = [NoInput EXCEPT !.pc = "request", !.path = path]

NextClassify == Classify

SpecClassify == InitClassify /\ [][NextClassify]_vars

\* The client key of every peer address up to MaxAddr characters.
MaxAddr == 7
AddrChars == {"h", "1", Colon, Open, Close}

InitExtract ==
    /\ clock = 0 /\ visitors = EmptyMap /\ heap = EmptyMap /\ globalMu = Free
    /\ rateLimits = [c \in {"auth", "posts", "default"} |-> RateLimitConfig(MaxBudget, MaxWindow)]
    /\ maxVisitors = DefaultMaxVisitors
    /\ th = [t \in Threads |-> IdleThread] /\ sw = IdleSweeper
    /\ nreq = 0 /\ nsweep = 0
    /\ hist = [ip \in Clients |-> [c \in Names |-> <<>>]]
    /\ evicted = {} /\ adm = NoAdmin /\ boot = Booted
    /\ \E addr \in Strings(AddrChars, MaxAddr) : cls = [NoInput EXCEPT !.pc = "peer", !.addr = addr]

NextExtract == ExtractKey

SpecExtract == InitExtract /\ [][NextExtract]_vars

\* Start-up: RateLimit is called up to MaxWraps times, by callers that may overlap.
MaxWraps == 5

InitOnce ==
    /\ clock = 0 /\ visitors = EmptyMap /\ heap = EmptyMap /\ globalMu = Free
    /\ rateLimits = [c \in {"auth", "posts", "default"} |-> RateLimitConfig(MaxBudget, MaxWindow)]
    /\ maxVisitors = DefaultMaxVisitors
    /\ th = [t \in Threads |-> IdleThread] /\ sw = IdleSweeper
    /\ nreq = 0 /\ nsweep = 0
    /\ hist = [ip \in Clients |-> [c \in Names |-> <<>>]]
    /\ evicted = {} /\ adm = NoAdmin /\ cls = NoInput
    /\ boot = NotBooted

NextOnce ==
    \/ \E w \in Wrappers : boot.calls < MaxWraps /\ Wrap(w)
    \/ \E w \in Wrappers : OnceLoad(w)
    \/ \E w \in Wrappers : OnceLock(w)
    \/ \E w \in Wrappers : OnceRun(w)
    \/ \E w \in Wrappers : OnceUnlock(w)

SpecOnce == InitOnce /\ [][NextOnce]_vars

\* Everything at once: two request goroutines, the sweep and every exported call,
\* under fair scheduling of the steps that are in progress. The registry is capped
\* at one visitor so that the second client meets the capacity eviction.
MaxReqsLive == 2
MaxTimeLive == 1
MaxAdmin == 1

AdminStep ==
    \/ \E c \in {"auth"}, m \in 1 .. MaxBudget : adm.n < MaxAdmin /\ SetRateLimit(c, m, MaxWindow)
    \/ adm.n < MaxAdmin /\ GetRateLimits
    \/ adm.n < MaxAdmin /\ StatsBegin
    \/ \E ip \in Clients : StatsVisit(ip)
    \/ StatsEnd
    \/ \E ip \in {"a"} : adm.n < MaxAdmin /\ ResetVisitor(ip)
    \/ adm.n < MaxAdmin /\ ResetAllVisitors

\* Every path that takes a visitor lock: two request goroutines with the capacity
\* eviction, the sweep, GetVisitorStats and PrintCurrentVisitors.
MaxReqsLocks == 2
MaxAdminLocks == 1

NextLocks ==
    \/ Tick
    \/ RequestStep(Threads, {"a", "b"}, {"auth"}, MaxReqsLocks)
    \/ SweepStep
    \/ \E k \in {1} : SetMaxVisitors(k)
    \/ adm.n < MaxAdminLocks /\ StatsBegin
    \/ \E ip \in Clients : StatsVisit(ip)
    \/ StatsEnd
    \/ adm.n < MaxAdminLocks /\ DumpBegin
    \/ \E ip \in Clients : DumpVisit(ip)
    \/ DumpEnd

SpecLocks == Init /\ [][NextLocks]_vars

\* A sequential schedule: requests and sweep passes run one at a time, each to its
\* end, with fixed policies and a registry below its capacity.
Quiet == \A t \in Threads : th[t].pc \in {"idle", "done"}

NextSerial ==
    \/ Tick
    \/ sw.pc = "sleep" /\ StartStep({"t1"}, Clients, Categories, MaxReqs)
    \/ HandleStep({"t1"})
    \/ Quiet /\ SweepBegin
    \/ \E ip \in Clients : SweepCheck(ip)
    \/ SweepClean
    \/ SweepEnd

SpecSerial == Init /\ [][NextSerial]_vars

\* One client under category names that have no policy of their own, and under
\* "default" itself: all three are served under the default policy.
MaxReqsKeys == 5
Unlisted == {Misc, Other, "default"}

NextKeys ==
    \/ Tick
    \/ StartStep({"t1"}, {"a"}, Unlisted, MaxReqsKeys)
    \/ HandleStep({"t1"})
    \/ SweepStep

SpecKeys == Init /\ [][NextKeys]_vars

\* The read operations, called between and during requests, with SetRateLimit and
\* with a caller that edits the map it got from GetRateLimits.
MaxReqsRead == 2
MaxAdminRead == 3
MaxPuts == 1

NextRead ==
    \/ StartStep({"t1"}, {"a", "b"}, {"auth"}, MaxReqsRead)
    \/ HandleStep({"t1"})
    \/ \E c \in {"auth", Misc}, m \in 1 .. MaxBudget :
          adm.n < MaxAdminRead /\ SetRateLimit(c, m, MaxWindow)
    \/ adm.n < MaxAdminRead /\ GetRateLimits
    \/ adm.n < MaxAdminRead /\ StatsBegin
    \/ \E ip \in Clients : StatsVisit(ip)
    \/ StatsEnd
    \/ \E c \in {"auth", Misc} : adm.puts < MaxPuts /\ CallerPut(c, 0, 0)
    \/ \E c \in {"auth", "default"} : adm.puts < MaxPuts /\ CallerDelete(c)

SpecRead == Init /\ [][NextRead]_vars

\* Some operation has begun and not finished.
InProgress ==
    \/ \E t \in Threads : th[t].pc \notin {"idle", "done"}
    \/ sw.pc # "sleep"
    \/ adm.stats.pc # "idle"

\* An operation lasts microseconds and a window minutes: the clock is read as
\* advancing between operations, not inside one.
NextLive ==
    \/ ~InProgress /\ clock < MaxTimeLive /\ Tick
    \/ RequestStep(Threads, {"a", "b"}, {"auth"}, MaxReqsLive)
    \/ SweepStep
    \/ \E k \in {1} : SetMaxVisitors(k)
    \/ AdminStep

\* A step of an operation that has begun: a request past getVisitor's first line,
\* a sweep pass, a GetVisitorStats call.
Progress(t) ==
    \/ \E ip \in Clients : EvictScan(t, ip)
    \/ EvictDone(t) \/ GetConfig(t) \/ ReadNow(t) \/ LockVisitor(t)
    \/ Update(t) \/ Respond(t)

SweepProgress == (\E ip \in Clients : SweepCheck(ip)) \/ SweepClean \/ SweepEnd

StatsProgress == (\E ip \in Clients : StatsVisit(ip)) \/ StatsEnd

InitLive == Init /\ rateLimits["auth"].MaxRequests = 1

SpecLive ==
    /\ InitLive
    /\ [][NextLive]_vars
    /\ \A t \in Threads : WF_vars(Progress(t))
    /\ WF_vars(SweepProgress)
    /\ WF_vars(StatsProgress)

(* ------------------------------ vocabulary ----------------------------- *)
Done(t) == th[t].pc = "done"
Served(t) == th[t].nextCalls = 1 /\ th[t].status = 0
Rejected(t) == th[t].status = TooManyRequests /\ th[t].nextCalls = 0
History(t) == hist[th[t].ip][th[t].category]
Budget(t) == th[t].cfg.MaxRequests
Window(t) == th[t].cfg.Window

\* The thread that takes this step, and the client it serves.
Steps(t) == th'[t] # th[t]
ClientOf(t) == IF th[t].pc = "idle" THEN th'[t].ip ELSE th[t].ip
CategoryOf(t) == IF th[t].pc = "idle" THEN th'[t].category ELSE th[t].category

\* What the registry holds for a client.
Counts(vis, h, ip) == IF ip \in DOMAIN vis THEN h[vis[ip]].requests ELSE EmptyMap
Seen(vis, h, ip) == IF ip \in DOMAIN vis THEN h[vis[ip]].lastSeen ELSE EmptyMap
Restrict(f, S) == [x \in (DOMAIN f) \cap S |-> f[x]]

\* The k-th request of a client to a category, k within the budget, is served.
FirstNServed == \A t \in Threads : Done(t) /\ th[t].k <= Budget(t) => Served(t)

TypeOK ==
    /\ clock \in 0 .. MaxTime
    /\ DOMAIN visitors \subseteq Clients
    /\ \A ip \in DOMAIN visitors : visitors[ip] \in DOMAIN heap

(* -------------------------------- claims ------------------------------- *)

\* C1: a client with no prior record sends N+1 requests to a category, the last
\* within W of the first: requests 1..N are served and request N+1 is rejected.
\* Stated for the clients no capacity eviction has touched.
C1_BudgetEnforced ==
    \A t \in Threads :
        (/\ Done(t)
         /\ th[t].ip \notin evicted
         /\ th[t].k <= Budget(t) + 1
         /\ th[t].now - History(t)[1][1] <= Window(t))
        => /\ Served(t) <=> th[t].k <= Budget(t)
           /\ Rejected(t) <=> th[t].k = Budget(t) + 1

\* C2: requests of one client to one category that are in flight together, inside
\* one window, never obtain the same post-increment count; of the first 2N of them
\* exactly N are served and N rejected.
C2_AtomicIncrement ==
    /\ \A t, u \in Threads :
         (/\ t # u
          /\ th[t].pc \in {"respond", "done"} /\ th[u].pc \in {"respond", "done"}
          /\ th[t].ip = th[u].ip /\ th[t].category = th[u].category
          /\ th[t].ip \notin evicted
          /\ th[t].now - th[u].now <= Window(t) /\ th[u].now - th[t].now <= Window(t))
         => th[t].reqCount # th[u].reqCount
    /\ \A ip \in Clients, c \in Categories :
         LET D == {t \in Threads : Done(t) /\ th[t].ip = ip /\ th[t].category = c}
             n == Cardinality(D) \div 2
         IN (/\ D # {}
             /\ ip \notin evicted
             /\ {th[t].k : t \in D} = 1 .. Cardinality(D)
             /\ \A t \in D : Budget(t) = n
             /\ \A t, u \in D : th[t].now - th[u].now <= Window(t))
            => /\ Cardinality({t \in D : Served(t)}) = n
               /\ Cardinality({t \in D : Rejected(t)}) = n

\* The first request of the window a request finds: the latest earlier one counted 1.
WindowStart(h, k) ==
    h[SetMax({j \in 1 .. (k - 1) : h[j][2] = 1})][1]

C4_RecoveryAfterGap ==
    \A t \in Threads :
        (Done(t) /\ th[t].k > 1 /\ th[t].now - History(t)[th[t].k - 1][1] > Window(t))
        => /\ th[t].reqCount = 1
           /\ th[t].header.Remaining = Budget(t) - 1
           /\ Served(t)

\* The latest request was rejected, the gap is longer than W, this one is served.
C4_Witness ==
    \E t \in Threads :
        /\ Done(t) /\ th[t].k > 1
        /\ History(t)[th[t].k - 1][2] > Budget(t)
        /\ th[t].now - History(t)[th[t].k - 1][1] > Window(t)
        /\ Served(t) /\ th[t].header.Remaining = Budget(t) - 1

C6_OtherClientUntouched ==
    [][\A t \in Threads : Steps(t) =>
         \A b \in Clients \ {ClientOf(t)} :
            Counts(visitors', heap', b) = Counts(visitors, heap, b)]_vars

\* C6 amended: a request of A changes nothing of B's record, except that A, arriving
\* as a new client at a full registry, may evict B's whole record; and the first N
\* requests of B to a category are served whatever A has done.
C6_OtherClientEvictedAtMost ==
    /\ []FirstNServed
    /\ [][\A t \in Threads : Steps(t) =>
            \A b \in Clients \ {ClientOf(t)} :
               \/ /\ Counts(visitors', heap', b) = Counts(visitors, heap, b)
                  /\ Seen(visitors', heap', b) = Seen(visitors, heap, b)
                  /\ (b \in DOMAIN visitors') = (b \in DOMAIN visitors)
               \/ /\ th[t].pc = "evict" /\ th'[t].pc = "getConfig"
                  /\ b = th[t].oldestIP
                  /\ b \in DOMAIN visitors /\ b \notin DOMAIN visitors'
                  /\ AtCapacity(Cardinality(DOMAIN visitors), maxVisitors)]_vars

\* A has been rejected, B is served within its own budget.
C6_Witness ==
    \E t \in Threads, a \in Clients :
        /\ Done(t) /\ Served(t) /\ th[t].ip # a
        /\ th[t].category \in DOMAIN Counts(visitors, heap, a)
        /\ Counts(visitors, heap, a)[th[t].category]
             > getRateLimitConfigUnsafe(rateLimits, th[t].category).MaxRequests

\* C7: a request to category c1 changes only the count and lastSeen of c1 in the
\* client's record; the first N requests to a category are served whatever the
\* client has spent on the other categories.
C7_OtherCategoryUntouched ==
    /\ []FirstNServed
    /\ [][\A t \in Threads :
            (Steps(t) /\ ClientOf(t) \in DOMAIN visitors /\ ClientOf(t) \in DOMAIN visitors') =>
               LET others == Categories \ {CategoryOf(t)} IN
               /\ Restrict(Counts(visitors', heap', ClientOf(t)), others)
                    = Restrict(Counts(visitors, heap, ClientOf(t)), others)
               /\ Restrict(Seen(visitors', heap', ClientOf(t)), others)
                    = Restrict(Seen(visitors, heap, ClientOf(t)), others)]_vars

\* auth is exhausted and a request of the same client to posts is served.
C7_Witness ==
    \E t \in Threads :
        /\ Done(t) /\ Served(t) /\ th[t].category = "posts"
        /\ "auth" \in DOMAIN Counts(visitors, heap, th[t].ip)
        /\ Counts(visitors, heap, th[t].ip)["auth"] > rateLimits["auth"].MaxRequests
        /\ "posts" \in DOMAIN Counts(visitors, heap, th[t].ip)

\* C8: the registry never holds more than maxVisitors records: no step that adds a
\* record leaves more than maxVisitors of them.
C8_CapacityBound ==
    [][Cardinality(DOMAIN visitors') > Cardinality(DOMAIN visitors)
         => Cardinality(DOMAIN visitors') <= maxVisitors']_vars

\* A visitor's latest activity over all of its categories.
LastActive(h, o) == SetMax({h[o].lastSeen[c] : c \in DOMAIN h[o].lastSeen})

\* C9: the visitor a capacity eviction removes is the least recently active one: no
\* other visitor's latest activity is older than the victim's.
C9_EvictsLeastRecentlyActive ==
    [][\A t \in Threads :
         (th[t].pc = "evict" /\ th'[t].pc = "getConfig") =>
            \A x \in (DOMAIN visitors) \ (DOMAIN visitors') :
               \A u \in (DOMAIN visitors) \ {x} :
                  DOMAIN heap[visitors[u]].lastSeen # {}
                  => LastActive(heap, visitors[x]) <= LastActive(heap, visitors[u])]_vars

\* C10: getVisitor of a registered key returns its record and changes nothing; of a
\* new key below capacity it inserts one empty record and removes none; of a new key
\* at capacity it removes exactly one record and inserts the new one.
C10_GetOrCreate ==
    [][\A t \in Threads :
         (th[t].pc \in {"idle", "evict"} /\ th'[t].pc = "getConfig") =>
            LET ip == ClientOf(t)
                removed == (DOMAIN visitors) \ (DOMAIN visitors')
            IN /\ ip \in DOMAIN visitors' /\ th'[t].v = visitors'[ip]
               /\ ip \in DOMAIN visitors =>
                    /\ visitors' = visitors
                    /\ \A o \in DOMAIN heap : o \in DOMAIN heap' /\ heap'[o] = heap[o]
               /\ ip \notin DOMAIN visitors =>
                    /\ heap'[visitors'[ip]] = NewVisitor
                    /\ \A b \in (DOMAIN visitors') \ {ip} : visitors'[b] = visitors[b]
                    /\ Cardinality(removed) =
                         IF AtCapacity(Cardinality(DOMAIN visitors), maxVisitors) THEN 1 ELSE 0]_vars

\* C11: every response, served or rejected, carries Limit = maxRequests, Remaining =
\* max(0, maxRequests - count) for the count this request recorded, and Reset = the
\* lastSeen this request recorded + window; a served request that counted k reads
\* Remaining = maxRequests - k and a rejected one reads 0, never a negative number.
C11_AccountingHeaders ==
    \A t \in Threads :
        Done(t) =>
            LET count == History(t)[th[t].k][2]
                lastSeen == History(t)[th[t].k][1]
                left == Budget(t) - count
            IN /\ th[t].header.Limit = Budget(t)
               /\ th[t].header.Remaining = IF left > 0 THEN left ELSE 0
               /\ th[t].header.Reset = lastSeen + Window(t)
               /\ Served(t) => th[t].header.Remaining = Budget(t) - count
               /\ Rejected(t) => th[t].header.Remaining = 0

\* A rejected response whose count is past the budget, and a served one before it.
C11_Witness ==
    \E t \in Threads :
        /\ Done(t) /\ Rejected(t)
        /\ History(t)[th[t].k][2] > Budget(t)
        /\ th[t].header.Remaining = 0
        /\ th[t].k > 1

\* The policy a lookup of category c must return from the table.
PolicyOf(limits, c) == IF c \in DOMAIN limits THEN limits[c] ELSE limits["default"]

\* C12: after any SetRateLimit calls the lookup of a request's category returns the
\* policy registered under that name if there is one and the policy of "default"
\* otherwise; "default" is never absent and no call removes an entry.
C12_LookupTotal ==
    /\ []("default" \in DOMAIN rateLimits)
    /\ [][DOMAIN rateLimits \subseteq DOMAIN rateLimits']_vars
    /\ [][\A t \in Threads :
            (th[t].pc = "getConfig" /\ th'[t].pc = "readNow")
            => th'[t].cfg = PolicyOf(rateLimits, th[t].category)]_vars

\* A request to a category with no policy of its own got the policy that a
\* SetRateLimit call registered under "default".
C12_Witness ==
    \E t \in Threads :
        /\ Done(t) /\ th[t].category = Misc /\ Misc \notin DOMAIN rateLimits
        /\ adm.n > 0 /\ nreq > adm.setAt
        /\ rateLimits["default"] # RateLimitConfig(MaxBudget, MaxWindow)
        /\ th[t].cfg = rateLimits["default"]

\* C13: a request that starts after SetRateLimit(c, M', W') returned is decided
\* against the policy then registered; SetRateLimit changes no visitor record; a
\* request that finds count k recorded inside the window counts k+1 and is rejected
\* exactly when k+1 > M'.
C13_SetPolicyImmediate ==
    /\ [](\A t \in Threads :
            (th[t].pc \in {"readNow", "lock", "update", "respond", "done"} /\ nreq > adm.setAt)
            => th[t].cfg = PolicyOf(rateLimits, th[t].category))
    /\ [][adm'.n # adm.n => visitors' = visitors /\ heap' = heap /\ hist' = hist]_vars
    /\ [][\A t \in Threads :
            (th[t].pc = "update" /\ th'[t].pc = "respond") =>
               LET rec == heap[th[t].v]
                   c == th[t].category
               IN (c \in DOMAIN rec.lastSeen /\ th[t].now - rec.lastSeen[c] <= th[t].cfg.Window)
                  => th'[t].reqCount = rec.requests[c] + 1]_vars
    /\ [](\A t \in Threads : Done(t) => (Rejected(t) <=> th[t].reqCount > th[t].cfg.MaxRequests))

\* One request counted, then misc gets a budget of 1, then the second request inside
\* the window is rejected with count 2 (the budget before the call was MaxBudget).
C13_Witness ==
    \E t \in Threads :
        /\ Done(t) /\ Rejected(t) /\ th[t].category = Misc
        /\ adm.n = 1 /\ adm.setAt = 1 /\ nreq = 2
        /\ Misc \in DOMAIN rateLimits /\ rateLimits[Misc].MaxRequests = 1
        /\ th[t].k = 2 /\ th[t].reqCount = 2
        /\ History(t)[1][2] = 1

\* C14: every policy in the table, "default" included, has maxRequests > 0 and
\* window > 0, whatever integers SetRateLimit was called with.
C14_PolicyValid ==
    \A c \in DOMAIN rateLimits :
        rateLimits[c].MaxRequests > 0 /\ rateLimits[c].Window > 0

\* The segments of a path: the maximal runs of characters other than the slash.
IsSegment(str, i, j) ==
    /\ i <= j
    /\ \A x \in i .. j : str[x] # Slash
    /\ i = 1 \/ str[i - 1] = Slash
    /\ j = Len(str) \/ str[j + 1] = Slash

\* The path with a leading "/api/" replaced by "/".
WithoutApi(path) ==
    IF Len(path) >= 5 /\ SubSeq(path, 1, 5) = <<Slash, "a", "p", "i", Slash>>
    THEN SubSeq(path, 5, Len(path)) ELSE path

\* C15: the category of a path is the first non-empty segment of the path without
\* its /api/ prefix, and "default" when there is no such segment; it is never the
\* empty string; later segments do not count.
C15_Classification ==
    cls.pc = "classified" =>
        LET rest == WithoutApi(cls.path)
            starts == {i \in 1 .. Len(rest) : \E j \in i .. Len(rest) : IsSegment(rest, i, j)}
        IN /\ cls.category # <<>>
           /\ starts = {} => cls.category = DefaultName
           /\ starts # {} =>
                \E j \in 1 .. Len(rest) :
                    /\ IsSegment(rest, SetMin(starts), j)
                    /\ cls.category = SubSeq(rest, SetMin(starts), j)

\* /api/p/i is classified as p.
C15_Witness ==
    /\ cls.pc = "classified"
    /\ cls.path = <<Slash, "a", "p", "i", Slash, "p", Slash, "i">>
    /\ cls.category = <<"p">>

\* No character of str is one of chars.
Without(str, chars) == \A x \in 1 .. Len(str) : str[x] \notin chars

\* addr is host:port with the colon at i: the port holds no colon or bracket, the
\* host is either bare (no colon, no bracket) or in brackets (no bracket inside).
IsHostPort(addr, i) ==
    /\ i \in 1 .. Len(addr) /\ addr[i] = Colon
    /\ Without(SubSeq(addr, i + 1, Len(addr)), {Colon, Open, Close})
    /\ \/ Without(SubSeq(addr, 1, i - 1), {Colon, Open, Close})
       \/ /\ i >= 3 /\ addr[1] = Open /\ addr[i - 1] = Close
          /\ Without(SubSeq(addr, 2, i - 2), {Open, Close})

HostOf(addr, i) ==
    IF addr[1] = Open THEN SubSeq(addr, 2, i - 2) ELSE SubSeq(addr, 1, i - 1)

\* C16: the key of a peer address that is host:port is the host alone, and the same
\* host with any other port gives the same key; the key of any other peer address
\* is the address itself; every address gets a key.
C16_ClientKey ==
    cls.pc = "keyed" =>
        LET at == {i \in 1 .. Len(cls.addr) : IsHostPort(cls.addr, i)}
        IN /\ at = {} => cls.ip = cls.addr
           /\ \A i \in at :
                /\ cls.ip = HostOf(cls.addr, i)
                /\ \A port \in Strings({"1", "h"}, 2) :
                     extractIP(SubSeq(cls.addr, 1, i) \o port) = cls.ip

\* [h:h]:1 is keyed as h:h.
C16_Witness ==
    /\ cls.pc = "keyed"
    /\ cls.addr = <<Open, "h", Colon, "h", Close, Colon, "1">>
    /\ cls.ip = <<"h", Colon, "h">>

\* C17: however many callers wrap a handler, overlapping or not, at most one cleanup
\* task is ever started; once a call of RateLimit has returned the task is running,
\* and no later call starts another.
C17_SingleCleanup ==
    /\ [](boot.tasks <= 1)
    /\ []((boot.calls > 0 /\ \A w \in Wrappers : boot.pc[w] = "idle") => boot.tasks = 1)
    /\ [][boot.done = 1 => boot'.tasks = boot.tasks]_vars

\* A caller that overlapped the first one finds, under the lock, that the task has
\* been started and starts none; every call has been made.
C17_Witness ==
    /\ boot.calls = MaxWraps
    /\ \E w \in Wrappers : boot.pc[w] = "unlock"
    /\ boot.tasks = 1 /\ boot.done = 1

\* C18: when a sweep pass taken at time now ends, no visitor of the registry holds
\* an entry with now - lastSeen > window, no visitor without entries remains, and
\* every entry with now - lastSeen <= window is still there with the same count and
\* lastSeen; the steps of the pass that clean a visitor keep such entries as well.
C18_SweepPostcondition ==
    [][/\ (sw.pc = "scan" /\ sw'.pc = "sleep") =>
            \A ip \in DOMAIN visitors' :
               LET seen == Seen(visitors', heap', ip)
               IN /\ DOMAIN seen # {}
                  /\ \A c \in DOMAIN seen : ~Stale(sw.now, seen[c], c)
       /\ (sw.pc \in {"scan", "clean"} /\ sw' # sw) =>
            \A ip \in DOMAIN visitors :
               \A c \in DOMAIN Seen(visitors, heap, ip) :
                  ~Stale(sw.now, Seen(visitors, heap, ip)[c], c) =>
                     /\ ip \in DOMAIN visitors'
                     /\ c \in DOMAIN Seen(visitors', heap', ip)
                     /\ Seen(visitors', heap', ip)[c] = Seen(visitors, heap, ip)[c]
                     /\ Counts(visitors', heap', ip)[c] = Counts(visitors, heap, ip)[c]]_vars

\* C19: every increment is applied to the record the registry holds for the client
\* at that moment, never to a record already removed; the sweep and the eviction
\* remove only records the registry still holds.
C19_NoLostUpdate ==
    [][/\ \A t \in Threads :
            (th[t].pc = "update" /\ th'[t].pc = "respond") =>
               /\ th[t].ip \in DOMAIN visitors
               /\ visitors[th[t].ip] = th[t].v
       /\ (sw.pc = "scan" /\ sw'.pc = "sleep") => sw.toDelete \subseteq DOMAIN visitors
       /\ \A t \in Threads :
            (th[t].pc = "evict" /\ th'[t].pc = "getConfig" /\ th[t].oldestIP # NoIP)
            => th[t].oldestIP \in DOMAIN visitors]_vars

AnyProgress == (\E t \in Threads : Progress(t)) \/ SweepProgress \/ StatsProgress

\* C20: the system never deadlocks (while an operation is in progress, some
\* operation in progress can take a step), and under fair scheduling globalMu is
\* always released again, so that a request waiting in getVisitor gets in, and every
\* request that has got in reaches its decision.
C20_NoBlocking ==
    /\ [](InProgress => ENABLED AnyProgress)
    /\ (globalMu # Free) ~> (globalMu = Free)
    /\ \A t \in Threads : (th[t].pc # "idle") ~> Done(t)

\* A request waits for the visitor lock that the other request holds, while the
\* sweep is in the middle of a pass.
C20_Witness ==
    \E t, u \in Threads :
        /\ th[t].pc = "lock" /\ th[u].pc = "update"
        /\ heap[th[t].v].mu = u
        /\ sw.pc # "sleep"

\* The thread that holds the lock a request is waiting for: the writer of globalMu
\* when the request is at getRateLimitConfig, the holder of v.mu when it is at line 202.
WaitsFor(u, t) ==
    \/ th[u].pc = "getConfig" /\ globalMu = t
    \/ th[u].pc = "lock" /\ heap[th[u].v].mu = t

\* C21: a request never waits for a lock held on behalf of a request of another
\* client; requests contend for a lock only with requests of the same client.
C21_NoCrossClientWait ==
    \A t, u \in Threads : (t # u /\ WaitsFor(u, t)) => th[t].ip = th[u].ip

\* The requests of a history between places i and j that were admitted under budget n.
Admitted(h, i, j, n) == {m \in i .. j : h[m][2] <= n}

ReadFrame ==
    /\ rateLimits' = rateLimits
    /\ visitors' = visitors
    /\ maxVisitors' = maxVisitors
    /\ DOMAIN heap' = DOMAIN heap
    /\ \A o \in DOMAIN heap :
         /\ heap'[o].requests = heap[o].requests
         /\ heap'[o].lastSeen = heap[o].lastSeen

\* C23: a step of GetRateLimits or of GetVisitorStats changes none of the policy
\* table, the registry, maxVisitors, the visitors' counts and timestamps; a write of
\* the caller to the map GetRateLimits returned leaves the live policies unchanged,
\* and no later step (a SetRateLimit in particular) changes that map.
C23_ReadOnly ==
    [][/\ (adm'.gets # adm.gets \/ adm'.stats # adm.stats) => ReadFrame
       /\ adm'.puts # adm.puts => rateLimits' = rateLimits
       /\ (adm.view # NoView /\ adm'.puts = adm.puts /\ adm'.gets = adm.gets)
            => CallerMap' = CallerMap]_vars

\* The caller got the table, dropped "default" from its map, and SetRateLimit then
\* changed the auth policy: the live table still has "default", the caller's map
\* still has the old auth policy; a stats call has counted a visitor in between.
C23_Witness ==
    /\ adm.view # NoView /\ adm.puts = 1
    /\ "default" \in DOMAIN rateLimits /\ "default" \notin DOMAIN CallerMap
    /\ "auth" \in DOMAIN CallerMap /\ CallerMap["auth"] # rateLimits["auth"]
    /\ adm.stats.pc = "idle" /\ adm.stats.total = 1

\* The locks a request goroutine holds.
HoldsGlobal(t) == globalMu = t
HeldVisitors(t) == {o \in DOMAIN heap : heap[o].mu = t}

\* C24: a request thread inside the reset/increment/lastSeen update holds the lock
\* of its visitor and not the registry lock; when it writes the headers, sends the
\* rejection or calls the wrapped handler, and afterwards, it holds no lock at all.
C24_LockDiscipline ==
    \A t \in Threads :
        /\ th[t].pc = "update" => HeldVisitors(t) = {th[t].v} /\ ~HoldsGlobal(t)
        /\ th[t].pc \in {"respond", "done"} => HeldVisitors(t) = {} /\ ~HoldsGlobal(t)

\* One request is inside the update, under its visitor's lock, while another request
\* of the same client has been passed to the wrapped handler.
C24_Witness ==
    \E t, u \in Threads :
        /\ th[t].pc = "update" /\ heap[th[t].v].mu = t
        /\ Done(u) /\ Served(u) /\ th[u].ip = th[t].ip
        /\ visitors[th[t].ip] = th[t].v

\* The request before the k-th of a history: its timestamp and its count.
Previous(h, k) == h[k - 1]

\* C25: when the request before this one (same client, same category, record not
\* removed in between, policy unchanged) was rejected, this one is counted on top of
\* it and rejected too if it comes within W of that request; it is served only if
\* it comes more than W after it, and then with count 1.
C25_RejectionPersists ==
    \A t \in Threads :
        (/\ Done(t) /\ th[t].ip \notin evicted /\ th[t].k > 1
         /\ Previous(History(t), th[t].k)[2] > Budget(t))
        => /\ th[t].now - Previous(History(t), th[t].k)[1] <= Window(t)
              => /\ Rejected(t)
                 /\ History(t)[th[t].k] = <<th[t].now, Previous(History(t), th[t].k)[2] + 1>>
           /\ Served(t)
              => /\ th[t].now - Previous(History(t), th[t].k)[1] > Window(t)
                 /\ History(t)[th[t].k] = <<th[t].now, 1>>

\* Budget 1, window 1: served at 0, rejected at 0, at 1 and at 2; the last one is
\* two units after the first request but only one after the request before it.
C25_Witness ==
    \E t \in Threads :
        /\ Done(t) /\ Rejected(t) /\ th[t].ip \notin evicted
        /\ Budget(t) = 1 /\ Window(t) = 1
        /\ History(t) = <<(<<0, 1>>), (<<0, 2>>), (<<1, 3>>), (<<2, 4>>)>>

\* C26: the counter of a request is the one of its own category name: under names
\* that share the default policy, the first request of a client to a name counts 1
\* and is served whatever the client's counts under the other names are, and a later
\* one counts one more than the previous request to the same name, or restarts at 1.
C26_KeyedByName ==
    \A t \in Threads :
        (Done(t) /\ th[t].category \in Unlisted)
        => /\ th[t].cfg = rateLimits["default"]
           /\ th[t].k = 1 => th[t].reqCount = 1 /\ Served(t)
           /\ th[t].k > 1 => th[t].reqCount \in {1, Previous(History(t), th[t].k)[2] + 1}

\* The client has used up the default budget under one unlisted name (third request
\* rejected) and, in the same window, is served under another unlisted name and
\* under "default", each with count 1.
C26_Witness ==
    \E t \in Threads :
        /\ Done(t) /\ Served(t) /\ th[t].category = "default" /\ th[t].reqCount = 1
        /\ clock = 0
        /\ Len(hist[th[t].ip][Misc]) = 3 /\ hist[th[t].ip][Misc][3][2] = 3
        /\ hist[th[t].ip][Misc][3][2] > rateLimits["default"].MaxRequests
        /\ hist[th[t].ip][Other] = <<(<<0, 1>>)>>
        /\ Counts(visitors, heap, th[t].ip) = [c \in Unlisted |-> IF c = Misc THEN 3 ELSE 1]

\* The count the k-th request of a history gets in a registry that is never swept:
\* the record is still there, with the count and the timestamp the request before left.
RECURSIVE NoSweepCount(_, _, _)
NoSweepCount(h, k, window) ==
    IF k = 1 THEN 1
    ELSE IF WindowExpired(h[k][1], h[k - 1][1], window) THEN 1
    ELSE NoSweepCount(h, k - 1, window) + 1

\* C27: in a sequential schedule of requests and sweep passes, every request gets
\* the count, and so the outcome, it gets in the same schedule without the passes.
C27_SweepTransparent ==
    /\ \A ip \in Clients, c \in Categories :
         \A k \in 1 .. Len(hist[ip][c]) :
            hist[ip][c][k][2] =
               NoSweepCount(hist[ip][c], k, getRateLimitConfigUnsafe(rateLimits, c).Window)
    /\ \A t \in Threads :
         Done(t) => /\ th[t].reqCount = NoSweepCount(History(t), th[t].k, Window(t))
                    /\ Rejected(t) <=> LimitExceeded(NoSweepCount(History(t), th[t].k, Window(t)), th[t].cfg)
                    /\ Served(t) <=> ~Rejected(t)

\* A pass has removed the client's record (its posts entry is gone) between two
\* requests to auth; the second one counts 1, as it would have without the pass.
C27_Witness ==
    \E t \in Threads :
        /\ Done(t) /\ th[t].category = "auth" /\ th[t].k = 2 /\ th[t].reqCount = 1
        /\ nsweep = 1 /\ sw.pc = "sleep"
        /\ Len(hist[th[t].ip]["posts"]) = 1
        /\ th[t].ip \in DOMAIN visitors
        /\ "posts" \notin DOMAIN Counts(visitors, heap, th[t].ip)

\* C28: while a visitor record stays in the registry, no step lowers the lastSeen of
\* one of its categories.
C28_LastSeenMonotonic ==
    [][\A ip \in (DOMAIN visitors) \cap (DOMAIN visitors') :
          visitors'[ip] = visitors[ip] =>
             \A c \in (DOMAIN Seen(visitors, heap, ip)) \cap (DOMAIN Seen(visitors', heap', ip)) :
                Seen(visitors', heap', ip)[c] >= Seen(visitors, heap, ip)[c]]_vars

\* The visitor a scanning step reads or cleans, under that visitor's lock: the
\* eviction scan of a request, the sweep, the stats and the dump.
Scanned(ip) ==
    \/ \E t \in Threads : th[t].pc = "evict" /\ ip \in th[t].todo \ th'[t].todo
    \/ sw.pc = "scan" /\ ip \in sw.todo /\ (ip \notin sw'.todo \/ sw'.cur = ip)
    \/ sw.pc = "clean" /\ sw.cur = ip /\ sw'.pc = "scan"
    \/ adm.stats.pc = "scan" /\ ip \in adm.stats.todo \ adm'.stats.todo
    \/ adm.dump.pc = "scan" /\ ip \in adm.dump.todo \ adm'.dump.todo

\* The holder of the registry lock during a scan.
Scanner ==
    IF \E t \in Threads : th[t].pc = "evict" THEN CHOOSE t \in Threads : th[t].pc = "evict"
    ELSE IF sw.pc # "sleep" THEN Sweeper
    ELSE IF adm.stats.pc = "scan" \/ adm.dump.pc = "scan" THEN Reader
    ELSE Free

\* C29: a request goroutine holds at most one visitor lock, and holds one only
\* inside the update, after getVisitor and getRateLimitConfig have returned, when it
\* neither holds nor asks for the registry lock; whoever takes the registry lock
\* holds no visitor lock; a scan takes the lock of a visitor only under the registry
\* lock, finds it free and has released it when it moves on, so it holds one
\* visitor lock at a time; the sweep, the stats and the dump keep no visitor lock.
C29_LockOrder ==
    /\ [](\A t \in Threads :
            /\ Cardinality(HeldVisitors(t)) <= 1
            /\ HeldVisitors(t) # {} => th[t].pc = "update" /\ ~HoldsGlobal(t))
    /\ [](\A o \in DOMAIN heap : heap[o].mu \in Threads \cup {Free})
    /\ [][/\ \A t \in Threads : (globalMu # t /\ globalMu' = t) => HeldVisitors(t) = {}
          /\ \A ip \in Clients :
               Scanned(ip) => /\ Scanner # Free /\ globalMu = Scanner
                              /\ heap[visitors[ip]].mu = Free
                              /\ heap'[visitors[ip]].mu = Free]_vars

\* With the registry capped at one visitor, the eviction scan of one request reads a
\* record under the registry lock while the other request waits for that lock, and a
\* stats or dump call has gone over the registry before.
C29_Witness ==
    \E t, u \in Threads :
        /\ th[t].pc = "evict" /\ th[t].todo = {} /\ globalMu = t
        /\ th[u].pc = "getConfig"
        /\ adm.n = 1 /\ adm.stats.pc = "idle" /\ adm.dump.pc = "idle"
        /\ nsweep = 1

\* C30: every visitor object, registered or still held by a request, has the same
\* categories in requests and in lastSeen, and every count it stores is at least 1.
C30_RecordWellFormed ==
    \A o \in DOMAIN heap :
        /\ DOMAIN heap[o].requests = DOMAIN heap[o].lastSeen
        /\ \A c \in DOMAIN heap[o].requests : heap[o].requests[c] >= 1

\* In the middle of a pass the sweep has cleaned a visitor: its auth entry, counted
\* earlier, is gone from both maps, and its posts entry is kept with count 2.
C30_Witness ==
    \E ip \in DOMAIN visitors :
        /\ nsweep = 1 /\ sw.pc = "scan" /\ ip \notin sw.todo /\ ip \notin sw.toDelete
        /\ ip \notin evicted
        /\ Len(hist[ip]["auth"]) = 1
        /\ Counts(visitors, heap, ip) = [c \in {"posts"} |-> 2]
        /\ DOMAIN Seen(visitors, heap, ip) = {"posts"}
====
